---- MODULE Spec2Model ----
(***************************************************************************)
(* A model of the BroadcastChannel polyfill of src/index.js: several       *)
(* browsing contexts (tabs) of one origin, each running its own copy of    *)
(* the module (its own _channels, _tabId and 'storage' listeners), all     *)
(* sharing one localStorage whose changes the host reports to the          *)
(* contexts as 'storage' events.                                           *)
(*                                                                         *)
(* Conventions.                                                            *)
(*  - A handle (an instance of _BroadcastChannel) is its index in objs.    *)
(*  - getRandomString() and getTimestamp() are modelled as fresh tokens:   *)
(*    the context's name for _tabId, the handle's index for the instance   *)
(*    name, the number of the message (its place in posts) for a message   *)
(*    key and for the timestamp of a message.                              *)
(*  - A text is the tuple of its parts, or a record naming what it holds.  *)
(*  - A message handler registered by the page on a handle is user code;   *)
(*    the one thing it may do here, besides receiving, is to call close()  *)
(*    on a handle of the channel being delivered to (Reentries).  What a   *)
(*    listener throws is reported by dispatchEvent, not propagated.        *)
(*  - The host queues the storage events of a context in the order of the  *)
(*    changes and dispatches them in that order.                           *)
(*  - log is the history of dispatchEvent calls, in order; a delivery is   *)
(*    the dispatch of the event built from the message object.             *)
(***************************************************************************)
EXTENDS Integers, Sequences, FiniteSets, TLC

\* ------------------------------------------------------------- bounds
MaxHandles == 3
MaxPosts == 1
MaxInjects == 1
MaxHandlesInject == 2

Contexts == {"tab1", "tab2"}
OtherPage == "other"
ChannelNames == {"x", "y"}
Payloads == {"hi", "circular"}

\* ---------------------------------------------------------- constants
prefix == "polyBC_"
MessageMarker == "polyBC_message_"

NoError == "none"
EnvironmentUnavailable == "localStorage not available"
ChannelClosed == "This BroadcastChannel is closed."
ConversionError == "Message conversion has resulted in an error."
TypeError == "TypeError"

VARIABLES
    objs,             \* the handles constructed so far, with the context of each
    channels,         \* channels[c]: _channels of context c, channelId -> array of handles
    channelsNull,     \* channelsNull[c]: _channels === null in context c
    tabId,            \* tabId[c]: _tabId of context c ("null" until generated)
    listeners,        \* listeners[c]: the functions registered for 'storage' on c's window
    store,            \* localStorage: key -> text
    pending,          \* pending[c]: the storage events queued for context c, oldest first
    timers,           \* scheduled removals (setTimeout callbacks not yet run)
    posts,            \* history: posts[t] is the postMessage call that built message t
    injects,          \* number of writes made to the store by other scripts
    hostNotifiesSelf, \* the host also reports a write to the writing context (IE)
    log,              \* history: every dispatchEvent(message) in order
    err               \* how the last operation ended: NoError, or what it threw

vars == <<objs, channels, channelsNull, tabId, listeners, store, pending,
          timers, posts, injects, hostNotifiesSelf, log, err>>

Handles == 1..Len(objs)

\* ------------------------------------------------------------ helpers

\* A faulty variant: the channel name is left out of the channel id
ChannelIdNoName(channelName) == <<prefix>>

\* _prefix + channelName: a text is the tuple of its parts
ChannelId(channelName) == <<prefix, channelName>>

\* isEmpty(obj): obj has no own keys
isEmpty(obj) == DOMAIN obj = {}

\* Array.prototype.indexOf: the first (1-based) index of x in arr, 0 when absent
indexOf(arr, x) ==
    IF \E i \in 1..Len(arr) : arr[i] = x
    THEN CHOOSE i \in 1..Len(arr) : arr[i] = x /\ \A j \in 1..(i-1) : arr[j] # x
    ELSE 0

\* Array.prototype.splice(index, 1)
splice(arr, index) ==
    [i \in 1..(Len(arr) - 1) |-> IF i < index THEN arr[i] ELSE arr[i + 1]]

\* A faulty variant: unshift instead of push
unshift(arr, x) == <<x>> \o arr

\* Array.prototype.push
push(arr, x) == Append(arr, x)

\* delete obj[key]
deleteKey(obj, key) == [k \in (DOMAIN obj) \ {key} |-> obj[k]]

\* obj[key] = value, on an object that may not have the key yet
setKey(obj, key, value) ==
    [k \in (DOMAIN obj) \cup {key} |-> IF k = key THEN value ELSE obj[k]]

\* A faulty variant: bind hands out one and the same function object every time
bindSameFunction(site, h) == [site |-> "_onmsg", this |-> 0]

\* _onmsg.bind(this): every call of bind returns a new function object; the one
\* made in the constructor and the one made in close() are never the same object
bind(site, h) == [site |-> site, this |-> h]

\* ------------------------------------------------ texts kept in the store

\* JSON.stringify(editedObj): throws for a value JSON cannot express
Serializable(data) == data # "circular"

JSONstringify(editedObj) ==
    [kind |-> "envelope",
     channelId |-> editedObj.channelId,
     bcId |-> editedObj.bcId,
     tabId |-> editedObj.tabId,
     message |-> editedObj.message]

\* texts another script may put in the store
Garbage == [kind |-> "garbage"]      \* not JSON: "{oops"
EmptyText == [kind |-> "empty"]      \* ""
JSONNull == [kind |-> "jsonNull"]    \* "null"
JSONOther == [kind |-> "jsonOther"]  \* "{}"
InjectedTexts == {Garbage, EmptyText, JSONNull, JSONOther}

\* newValue of the storage event of a removal
Removed == [kind |-> "removed"]

\* !newValue is false
Truthy(newValue) == newValue.kind \notin {"removed", "empty"}

\* JSON.parse(text) returns (does not throw)
JSONparses(text) == text.kind \in {"envelope", "jsonNull", "jsonOther"}

\* the keys of the store: the text of a key is marker + rand + '_' + channelId
MessageKey(rand, channelId) ==
    [marker |-> MessageMarker, rand |-> rand, channelId |-> channelId]

InjectedKeys ==
    {[marker |-> MessageMarker, rand |-> 0, channelId |-> ChannelId("x")],
     [marker |-> "settings_", rand |-> 0, channelId |-> ChannelId("x")]}

\* key.indexOf(`${_prefix}message_`) > -1
KeyMatches(key) == key.marker = MessageMarker

\* ------------------------------------------------------------ the host

\* The part of the state a handler can change, as one record.
World ==
    [objs |-> objs, channels |-> channels, listeners |-> listeners,
     store |-> store, pending |-> pending, timers |-> timers, log |-> log,
     err |-> NoError]

\* the host queues a 'storage' event for a change made by context c: one for
\* every other context, and one for c itself on a host that notifies the writer
QueueStorageEvents(q, c, key, newValue) ==
    [d \in Contexts |->
        IF d # c \/ hostNotifiesSelf
        THEN Append(q[d], [key |-> key, newValue |-> newValue])
        ELSE q[d]]

\* localStorage.setItem(key, text) called in context c
setItem(w, c, key, text) ==
    IF key \in DOMAIN w.store /\ w.store[key] = text
    THEN w
    ELSE [w EXCEPT !.store = setKey(w.store, key, text),
                   !.pending = QueueStorageEvents(w.pending, c, key, text)]

\* localStorage.removeItem(key) called in context c: nothing happens, and no
\* event is queued, when the key is absent
removeItem(w, c, key) ==
    IF key \in DOMAIN w.store
    THEN [w EXCEPT !.store = deleteKey(w.store, key),
                   !.pending = QueueStorageEvents(w.pending, c, key, Removed)]
    ELSE w

\* context.removeEventListener('storage', fn)
removeEventListener(fns, fn) == fns \ {fn}

\* context.addEventListener('storage', fn, false)
addEventListener(fns, fn) == fns \cup {fn}

\* ----------------------------------------------------------- close()

\* A faulty variant: the test index > 0 in place of index > -1: the first subscriber is
\* never removed
spliceOutFirstKept(subscribers, h) ==
    IF indexOf(subscribers, h) > 1
    THEN splice(subscribers, indexOf(subscribers, h))
    ELSE subscribers

\* index = subscribers.indexOf(this); if (index > -1) subscribers.splice(index, 1)
spliceOut(subscribers, h) ==
    IF indexOf(subscribers, h) > 0
    THEN splice(subscribers, indexOf(subscribers, h))
    ELSE subscribers

\* A faulty variant: the empty collection is kept in _channels
dropIfEmptyNever(chans, id, subscribers) == [chans EXCEPT ![id] = subscribers]

\* if (!subscribers.length) delete _channels[this.channelId]
dropIfEmpty(chans, id, subscribers) ==
    IF Len(subscribers) = 0
    THEN deleteKey(chans, id)
    ELSE [chans EXCEPT ![id] = subscribers]

\* close() of handle h, as a function of the world; err is set when it throws
close(w, h) ==
    LET c == w.objs[h].ctx
        id == w.objs[h].channelId
        w1 == [w EXCEPT !.objs[h].closed = TRUE]
    IN  IF id \notin DOMAIN w1.channels[c]
        THEN \* subscribers is undefined: subscribers.indexOf throws
             [w1 EXCEPT !.err = TypeError]
        ELSE LET subscribers == spliceOut(w1.channels[c][id], h)
                 chans == dropIfEmpty(w1.channels[c], id, subscribers)
                 fns == IF isEmpty(chans)
                        THEN removeEventListener(w1.listeners[c], bind("close", h))
                        ELSE w1.listeners[c]
             IN  [w1 EXCEPT !.channels[c] = chans, !.listeners[c] = fns]

\* ------------------------------------------------- message handlers

\* What the page's message handlers do during one operation: nothing, or the
\* handler of handle `on` calls close() on handle `close`.  Only the handlers of
\* the open handles of the channel being delivered to can run, and only a
\* close() on a handle of that channel touches the array being walked.
NoReentry == [on |-> 0, close |-> 0]

Reentries(c, id) ==
    {NoReentry} \cup
    {[on |-> h, close |-> g] :
        h \in {k \in Handles : objs[k].ctx = c /\ objs[k].channelId = id
                                               /\ ~objs[k].closed},
        g \in {k \in Handles : objs[k].ctx = c /\ objs[k].channelId = id}}

\* sub.dispatchEvent(new CustomEvent('message', msg)): the listeners of sub run
\* synchronously; what one of them throws does not reach the caller
dispatchEvent(w, sub, msg, via, r) ==
    LET w1 == [w EXCEPT !.log = Append(w.log,
                   [to |-> sub, timestamp |-> msg.timestamp,
                    data |-> msg.data, via |-> via])]
    IN  IF r.on = sub
        THEN [close(w1, r.close) EXCEPT !.err = w1.err]
        ELSE w1

\* the array a forEach in context c is walking: the array object of channel id,
\* which close() empties before it deletes the channel's entry
ArrayOf(w, c, id) ==
    IF id \in DOMAIN w.channels[c] THEN w.channels[c][id] ELSE <<>>

\* ------------------------------------------------------- postMessage

\* buildResponse(data); t stands for getTimestamp()
buildResponse(data, t) == [timestamp |-> t, data |-> data]

\* the callback given to subscribers.forEach in postMessage
PostCallback(w, self, sub, msgObj, r) ==
    IF w.objs[sub].closed \/ w.objs[sub].name = w.objs[self].name
    THEN w
    ELSE dispatchEvent(w, sub, msgObj, "postMessage", r)

\* subscribers.forEach(...) in postMessage from index k on: forEach reads the
\* length once (len) and skips an index the array no longer has
RECURSIVE PostForEach(_, _, _, _, _, _, _)
PostForEach(w, self, id, k, len, msgObj, r) ==
    LET arr == ArrayOf(w, w.objs[self].ctx, id)
    IN  IF k > len THEN w
        ELSE IF k > Len(arr) THEN PostForEach(w, self, id, k + 1, len, msgObj, r)
        ELSE PostForEach(PostCallback(w, self, arr[k], msgObj, r),
                         self, id, k + 1, len, msgObj, r)

\* A faulty variant: the removal of the key is not scheduled
setTimeoutDropped(tms, c, lsKey) == tms

\* setTimeout(() => context.localStorage.removeItem(lsKey), 1000): nothing keeps
\* the timer id, so nothing can cancel it
setTimeout(tms, c, lsKey) == tms \cup {[ctx |-> c, key |-> lsKey]}

\* postMessage(data) on handle h, after the two guards at its top
postMessage(w, h, data, t, r) ==
    LET c == w.objs[h].ctx
        id == w.objs[h].channelId
        msgObj == buildResponse(data, t)
        w1 == PostForEach(w, h, id, 1, Len(ArrayOf(w, c, id)), msgObj, r)
        editedObj == [channelId |-> id, bcId |-> w.objs[h].name,
                      tabId |-> tabId[c], message |-> msgObj]
        lsKey == MessageKey(t, id)
    IN  IF ~Serializable(data)
        THEN [w1 EXCEPT !.err = ConversionError]
        ELSE [setItem(w1, c, lsKey, JSONstringify(editedObj))
                 EXCEPT !.timers = setTimeout(w1.timers, c, lsKey)]

\* ------------------------------------------------------------ _onmsg

\* the callback given to subscribers.forEach in _onmsg
OnMsgCallback(w, sub, message, r) ==
    IF ~w.objs[sub].closed
    THEN dispatchEvent(w, sub, message, "_onmsg", r)
    ELSE w

RECURSIVE OnMsgForEach(_, _, _, _, _, _, _)
OnMsgForEach(w, c, id, k, len, message, r) ==
    LET arr == ArrayOf(w, c, id)
    IN  IF k > len THEN w
        ELSE IF k > Len(arr) THEN OnMsgForEach(w, c, id, k + 1, len, message, r)
        ELSE OnMsgForEach(OnMsgCallback(w, arr[k], message, r),
                          c, id, k + 1, len, message, r)

\* A faulty variant: the context id of the envelope is not compared
OnMsgAcceptsAnyTab(w, c, obj) ==
    /\ obj.channelId # <<>>
    /\ ~channelsNull[c]
    /\ obj.channelId \in DOMAIN w.channels[c]

\* the test made on the parsed object before it is delivered
OnMsgAccepts(w, c, obj) ==
    /\ obj.tabId # tabId[c]
    /\ obj.channelId # <<>>
    /\ ~channelsNull[c]
    /\ obj.channelId \in DOMAIN w.channels[c]

\* A faulty variant: the text that does not parse is dropped
parseFailedSilent(w) == w

\* catch(ex) { throw 'Message conversion has resulted in an error.' }
parseFailed(w) == [w EXCEPT !.err = ConversionError]

\* _onmsg(ev) run in context c
onmsg(w, c, ev, r) ==
    LET key == ev.key
        newValue == ev.newValue
        isRemoved == ~Truthy(newValue)
    IN  IF ~(KeyMatches(key) /\ ~isRemoved) THEN w
        ELSE IF ~JSONparses(newValue) THEN parseFailed(w)
        ELSE IF newValue.kind = "jsonNull"
             THEN \* obj is null: obj.tabId throws
                  [w EXCEPT !.err = TypeError]
        ELSE IF newValue.kind = "jsonOther"
             THEN \* obj.channelId is undefined
                  w
        ELSE IF OnMsgAccepts(w, c, newValue)
             THEN LET id == newValue.channelId
                      w1 == OnMsgForEach(w, c, id, 1, Len(ArrayOf(w, c, id)),
                                         newValue.message, r)
                  IN  removeItem(w1, c, key)
             ELSE w

\* the host dispatches a storage event to the listeners of context c, one after
\* the other; what one throws is reported and the next still runs
RECURSIVE DispatchStorage(_, _, _, _, _)
DispatchStorage(w, c, fns, ev, r) ==
    IF fns = {} THEN w
    ELSE LET fn == CHOOSE f \in fns : TRUE
             w1 == onmsg([w EXCEPT !.err = NoError], c, ev, r)
             w2 == DispatchStorage(w1, c, fns \ {fn}, ev, r)
         IN  IF w1.err # NoError /\ w2.err = NoError
             THEN [w2 EXCEPT !.err = w1.err]
             ELSE w2

\* ---------------------------------------------------------- the actions

Init ==
    /\ objs = <<>>
    /\ channels = [c \in Contexts |-> <<>>]
    /\ channelsNull = [c \in Contexts |-> TRUE]
    /\ tabId = [c \in Contexts |-> "null"]
    /\ listeners = [c \in Contexts |-> {}]
    /\ store = <<>>
    /\ pending = [c \in Contexts |-> <<>>]
    /\ timers = {}
    /\ posts = <<>>
    /\ injects = 0
    /\ hostNotifiesSelf \in BOOLEAN
    /\ log = <<>>
    /\ err = NoError

\* the world a handler leaves behind becomes the state
Becomes(w) ==
    /\ objs' = w.objs
    /\ channels' = w.channels
    /\ listeners' = w.listeners
    /\ store' = w.store
    /\ pending' = w.pending
    /\ timers' = w.timers
    /\ log' = w.log

\* A faulty variant: the constructor goes on without looking for localStorage
checkLocalStorageSkipped(available) == NoError

\* if (!context.localStorage) throw 'localStorage not available'
checkLocalStorage(available) ==
    IF ~available THEN EnvironmentUnavailable ELSE NoError

\* A faulty variant: the registry being empty is taken for its never having been
\* made
isFirstChannelWhenEmpty(c) == isEmpty(channels[c])

\* const isFirstChannel = (_channels === null)
isFirstChannel(c) == channelsNull[c]

\* new BroadcastChannel(channelName) in context c; available: context.localStorage
\* is there
Construct(c, channelName, available) ==
    /\ Len(objs) < MaxHandles
    /\ IF checkLocalStorage(available) # NoError
       THEN /\ err' = checkLocalStorage(available)
            /\ UNCHANGED <<objs, channels, channelsNull, tabId, listeners>>
       ELSE LET channelId == ChannelId(channelName)
                this == Len(objs) + 1
                subscribers == IF channelId \in DOMAIN channels[c]
                               THEN channels[c][channelId] ELSE <<>>
            IN  /\ tabId' = [tabId EXCEPT ![c] = IF @ = "null" THEN c ELSE @]
                /\ channelsNull' = [channelsNull EXCEPT ![c] = FALSE]
                /\ channels' = [channels EXCEPT ![c] =
                        setKey(@, channelId, push(subscribers, this))]
                /\ objs' = Append(objs, [ctx |-> c, channelName |-> channelName,
                                         channelId |-> channelId,
                                         name |-> <<channelId, "::::", this>>,
                                         closed |-> FALSE])
                /\ listeners' = [listeners EXCEPT ![c] =
                        IF isFirstChannel(c)
                        THEN addEventListener(@, bind("constructor", this))
                        ELSE @]
                /\ err' = NoError
    /\ UNCHANGED <<store, pending, timers, posts, injects, hostNotifiesSelf, log>>

\* A faulty variant: the closed flag is not looked at
postMessageEntryNoClosed(h) ==
    IF channelsNull[objs[h].ctx] THEN "return" ELSE "run"

\* A faulty variant: a registry left empty by close() counts as no registry
postMessageEntryEmptyReturns(h) ==
    IF channelsNull[objs[h].ctx] \/ isEmpty(channels[objs[h].ctx]) THEN "return"
    ELSE IF objs[h].closed THEN "throw"
    ELSE "run"

\* the two guards at the top of postMessage
postMessageEntry(h) ==
    IF channelsNull[objs[h].ctx] THEN "return"
    ELSE IF objs[h].closed THEN "throw"
    ELSE "run"

\* h.postMessage(data); r: what the message handlers do during the call
PostMessage(h, data, r) ==
    LET c == objs[h].ctx
    IN  IF postMessageEntry(h) = "return"
        THEN /\ err' = NoError
             /\ UNCHANGED <<objs, channels, channelsNull, tabId, listeners, store,
                            pending, timers, posts, injects, hostNotifiesSelf, log>>
        ELSE IF postMessageEntry(h) = "throw"
        THEN /\ err' = ChannelClosed
             /\ UNCHANGED <<objs, channels, channelsNull, tabId, listeners, store,
                            pending, timers, posts, injects, hostNotifiesSelf, log>>
        ELSE /\ Len(posts) < MaxPosts
             /\ LET w == postMessage(World, h, data, Len(posts) + 1, r)
                IN  /\ Becomes(w)
                    /\ err' = w.err
             /\ posts' = Append(posts, [h |-> h, data |-> data])
             /\ UNCHANGED <<channelsNull, tabId, injects, hostNotifiesSelf>>

\* h.close()
Close(h) ==
    /\ LET w == close(World, h)
       IN  /\ Becomes(w)
           /\ err' = w.err
    /\ UNCHANGED <<channelsNull, tabId, posts, injects, hostNotifiesSelf>>

\* the channel named by the oldest storage event queued for context c
HeadChannel(c) ==
    IF pending[c] # <<>> /\ Head(pending[c]).newValue.kind = "envelope"
    THEN Head(pending[c]).newValue.channelId
    ELSE <<>>

\* the host dispatches the oldest storage event queued for context c
StorageEvent(c, r) ==
    /\ pending[c] # <<>>
    /\ LET ev == Head(pending[c])
           w0 == [World EXCEPT !.pending[c] = Tail(pending[c])]
           w == DispatchStorage(w0, c, listeners[c], ev, r)
       IN  /\ Becomes(w)
           /\ err' = w.err
    /\ UNCHANGED <<channelsNull, tabId, posts, injects, hostNotifiesSelf>>

\* A faulty variant: the callback insists on finding the key it removes
TimerFireStrict(tm) ==
    /\ LET w == removeItem([World EXCEPT !.timers = timers \ {tm}], tm.ctx, tm.key)
       IN  /\ Becomes(w)
           /\ err' = IF tm.key \in DOMAIN store THEN w.err ELSE TypeError
    /\ UNCHANGED <<channelsNull, tabId, posts, injects, hostNotifiesSelf>>

\* the callback of setTimeout(() => context.localStorage.removeItem(lsKey), 1000)
TimerFire(tm) ==
    /\ LET w == removeItem([World EXCEPT !.timers = timers \ {tm}], tm.ctx, tm.key)
       IN  /\ Becomes(w)
           /\ err' = w.err
    /\ UNCHANGED <<channelsNull, tabId, posts, injects, hostNotifiesSelf>>

\* a script of another page of the origin (one that does not run this module)
\* writes text under key in the shared store
InjectStore(key, text) ==
    /\ injects < MaxInjects
    /\ injects' = injects + 1
    /\ LET w == setItem(World, OtherPage, key, text)
       IN  /\ Becomes(w)
           /\ err' = w.err
    /\ UNCHANGED <<channelsNull, tabId, posts, hostNotifiesSelf>>

\* the operations of the relay and of the host
Next ==
    \/ \E c \in Contexts, n \in ChannelNames, a \in BOOLEAN : Construct(c, n, a)
    \/ \E h \in Handles, d \in Payloads :
            \E r \in Reentries(objs[h].ctx, objs[h].channelId) : PostMessage(h, d, r)
    \/ \E h \in Handles : Close(h)
    \/ \E c \in Contexts : \E r \in Reentries(c, HeadChannel(c)) : StorageEvent(c, r)
    \/ \E tm \in timers : TimerFire(tm)

Spec == Init /\ [][Next]_vars

\* the same with a foreign script writing to the store, over fewer handles
NextInject ==
    \/ \E c \in Contexts, n \in ChannelNames, a \in BOOLEAN :
            Len(objs) < MaxHandlesInject /\ Construct(c, n, a)
    \/ \E h \in Handles, d \in Payloads :
            \E r \in Reentries(objs[h].ctx, objs[h].channelId) : PostMessage(h, d, r)
    \/ \E h \in Handles : Close(h)
    \/ \E c \in Contexts : \E r \in Reentries(c, HeadChannel(c)) : StorageEvent(c, r)
    \/ \E tm \in timers : TimerFire(tm)
    \/ \E key \in InjectedKeys, text \in InjectedTexts : InjectStore(key, text)

SpecInject == Init /\ [][NextInject]_vars

\* the host runs every timer callback that was scheduled: a page that stays
\* loaded gets its setTimeout callbacks
TimerFairness == WF_vars(\E tm \in timers : TimerFire(tm))

FairSpec == Init /\ [][Next]_vars /\ TimerFairness

\* ----------------------------------------------------------- the claims

\* the handle that posted the message a delivery carries
Sender(e) == posts[e.timestamp].h

\* the handles of context c on channel channelName that are open
OpenOn(c, channelName) ==
    {g \in Handles : /\ objs[g].ctx = c
                     /\ objs[g].channelName = channelName
                     /\ ~objs[g].closed}

\* the handles in S, in the order of their construction
RECURSIVE InOrder(_)
InOrder(S) ==
    IF S = {} THEN <<>>
    ELSE LET g == CHOOSE x \in S : \A y \in S : x <= y
         IN  <<g>> \o InOrder(S \ {g})

\* the deliveries made by the step
NewDeliveries == SubSeq(log', Len(log) + 1, Len(log'))

\* the message key written for message t
KeyOf(t) == MessageKey(t, objs[posts[t].h].channelId)

\* C1: no handle ever receives a message it posted itself, neither in its own
\* context's delivery nor through the storage handler of its own context.
C1_NoOwnMessage ==
    \A i \in 1..Len(log) : log[i].to # Sender(log[i])

\* C1 happens: on a host that reports a write to the writer, the writer's context
\* has handled the storage event of its own message, which other handles of the
\* context had received in-context.
C1_Witness ==
    /\ hostNotifiesSelf
    /\ Len(posts) = 1
    /\ Serializable(posts[1].data)
    /\ ~objs[posts[1].h].closed
    /\ pending[objs[posts[1].h].ctx] = <<>>
    /\ KeyOf(1) \in DOMAIN store
    /\ \E i \in 1..Len(log) : log[i].via = "postMessage"

C3_ChannelIsolation ==
    \A i \in 1..Len(log) :
        objs[log[i].to].channelName = objs[Sender(log[i])].channelName

\* C3 happens: the storage handler of a context has delivered a message to a
\* handle while an open handle of another channel, constructed before the message
\* was posted, stood in the same context.
C3_Witness ==
    \E i \in 1..Len(log), g \in Handles :
        /\ log[i].via = "_onmsg"
        /\ objs[g].ctx = objs[log[i].to].ctx
        /\ objs[g].channelName # objs[log[i].to].channelName
        /\ ~objs[g].closed
        /\ g < Sender(log[i])

\* the handle is in some subscriber collection of its context
Registered(h) ==
    \E id \in DOMAIN channels[objs[h].ctx] :
        \E i \in 1..Len(channels[objs[h].ctx][id]) : channels[objs[h].ctx][id][i] = h

\* C4: a handle on which close() was called receives nothing in any later
\* operation and is in no subscriber collection.
C4_ClosedReceivesNothing ==
    [][\A h \in Handles :
        objs[h].closed =>
            /\ \A i \in 1..Len(NewDeliveries) : NewDeliveries[i].to # h
            /\ ~Registered(h)']_vars

\* C4 happens: a handle that existed when the message was posted is closed and
\* never received it, while an open handle of its channel and context did, through
\* the storage handler.
C4_Witness ==
    \E h, g \in Handles :
        /\ h # g
        /\ objs[h].closed /\ ~objs[g].closed
        /\ objs[h].ctx = objs[g].ctx
        /\ objs[h].channelName = objs[g].channelName
        /\ \E i \in 1..Len(log) :
            /\ log[i].to = g
            /\ log[i].via = "_onmsg"
            /\ h < Sender(log[i])
        /\ \A i \in 1..Len(log) : log[i].to # h

\* C5: postMessage on a closed handle throws the ChannelClosed error and changes
\* nothing: no delivery, no store entry, no timer, no storage event.
C5_ClosedPostFails ==
    [][\A h \in Handles, d \in Payloads :
        \A r \in Reentries(objs[h].ctx, objs[h].channelId) :
            (objs[h].closed /\ PostMessage(h, d, r)) =>
                /\ err' = ChannelClosed
                /\ UNCHANGED <<objs, channels, channelsNull, tabId, listeners,
                               store, pending, timers, posts, log>>]_vars

\* C5 happens: a call has just failed with the ChannelClosed error.
C5_Witness ==
    /\ err = ChannelClosed
    /\ \E h \in Handles : objs[h].closed

\* C6: once close() has removed the last open handle of the last channel of a
\* context, no storage listener of the context is left to handle store changes.
C6_ListenerDetached ==
    \A c \in Contexts :
        (~channelsNull[c] /\ isEmpty(channels[c])) => listeners[c] = {}

\* C7: between operations, a context's registry holds a channel exactly when an
\* open handle of the channel exists in the context: its collections hold open
\* handles of that channel only, hold every one of them, and none is empty.
C7_RegistryMatchesOpenHandles ==
    \A c \in Contexts :
        /\ \A id \in DOMAIN channels[c] :
            /\ Len(channels[c][id]) > 0
            /\ \A i \in 1..Len(channels[c][id]) :
                LET g == channels[c][id][i]
                IN  /\ g \in Handles
                    /\ objs[g].ctx = c
                    /\ objs[g].channelId = id
                    /\ ~objs[g].closed
        /\ \A h \in Handles :
            (objs[h].ctx = c /\ ~objs[h].closed) =>
                /\ objs[h].channelId \in DOMAIN channels[c]
                /\ Registered(h)

\* C7 happens: the last handle of one channel was closed and its entry is gone,
\* while another channel of the context keeps its entry.
C7_Witness ==
    \E h, g \in Handles :
        /\ objs[h].ctx = objs[g].ctx
        /\ objs[h].closed /\ ~objs[g].closed
        /\ objs[h].channelId \notin DOMAIN channels[objs[h].ctx]
        /\ objs[g].channelId \in DOMAIN channels[objs[g].ctx]

\* the oldest storage event queued for c is an envelope that the handler of c,
\* if one is registered, delivers
HeadAccepted(c) ==
    /\ pending[c] # <<>>
    /\ listeners[c] # {}
    /\ KeyMatches(Head(pending[c]).key)
    /\ Head(pending[c]).newValue.kind = "envelope"
    /\ OnMsgAccepts(World, c, Head(pending[c]).newValue)

\* the number of deliveries to g made by the step
NewDeliveriesTo(g) ==
    Cardinality({i \in 1..Len(NewDeliveries) : NewDeliveries[i].to = g})

\* C8: when a context with an open handle on a channel handles the store change
\* of an envelope for that channel written by another context, every handle of
\* the channel in the context that is open (here: before and after the handler
\* ran) receives the message exactly once, and the key is gone from the store.
C8_StoreDelivery ==
    [][\A c \in Contexts : \A r \in Reentries(c, HeadChannel(c)) :
        (HeadAccepted(c) /\ StorageEvent(c, r)) =>
            /\ \A g \in Handles :
                (/\ objs[g].ctx = c
                 /\ objs[g].channelId = HeadChannel(c)
                 /\ ~objs[g].closed
                 /\ ~objs'[g].closed) => NewDeliveriesTo(g) = 1
            /\ Head(pending[c]).key \notin DOMAIN store']_vars

\* C8 as far as the code goes: the same when no message handler calls close()
\* while the handler delivers.
C8_StoreDeliveryNoReentry ==
    [][\A c \in Contexts :
        (HeadAccepted(c) /\ StorageEvent(c, NoReentry)) =>
            /\ \A g \in Handles :
                (/\ objs[g].ctx = c
                 /\ objs[g].channelId = HeadChannel(c)
                 /\ ~objs[g].closed) => NewDeliveriesTo(g) = 1
            /\ Head(pending[c]).key \notin DOMAIN store']_vars

\* the oldest storage event queued for c carries a new value under a message key
\* and a listener of c is there to handle it
HeadIsNewValue(c) ==
    /\ pending[c] # <<>>
    /\ listeners[c] # {}
    /\ KeyMatches(Head(pending[c]).key)
    /\ Head(pending[c]).newValue.kind # "removed"

\* the handler threw the conversion error, delivered nothing and removed nothing
FailsDeserialization ==
    /\ err' = ConversionError
    /\ log' = log
    /\ store' = store

\* C9 as stated: a new (non-empty) value under a message key that is not the
\* text of an envelope makes the handler fail with the conversion error, with no
\* delivery and the key left in the store.
C9_MalformedFails ==
    [][\A c \in Contexts :
        (/\ HeadIsNewValue(c)
         /\ Truthy(Head(pending[c]).newValue)
         /\ Head(pending[c]).newValue.kind # "envelope"
         /\ StorageEvent(c, NoReentry)) => FailsDeserialization]_vars

\* C9 amended: a non-empty new value under a message key that JSON.parse rejects
\* makes the handler fail with the conversion error, with no delivery and the key
\* left in the store.
C9_UnparsableFails ==
    [][\A c \in Contexts :
        (/\ HeadIsNewValue(c)
         /\ Truthy(Head(pending[c]).newValue)
         /\ ~JSONparses(Head(pending[c]).newValue)
         /\ StorageEvent(c, NoReentry)) => FailsDeserialization]_vars

\* C9 happens: the handler of a context with an open handle has just thrown the
\* conversion error for a text written by another script.
C9_Witness ==
    /\ err = ConversionError
    /\ posts = <<>>
    /\ injects = 1
    /\ \E h \in Handles : ~objs[h].closed
    /\ \E key \in DOMAIN store : KeyMatches(key) /\ store[key] = Garbage

\* C10: removing a message key that is no longer in the store changes nothing and
\* throws nothing, whether it is the writer's timer that comes second or the
\* handler of a receiving context.
C10_DuplicateDelete ==
    [][/\ \A tm \in timers :
            (tm.key \notin DOMAIN store /\ TimerFire(tm)) =>
                /\ err' = NoError
                /\ UNCHANGED <<store, pending>>
       /\ \A c \in Contexts : \A r \in Reentries(c, HeadChannel(c)) :
            (/\ HeadAccepted(c)
             /\ Head(pending[c]).key \notin DOMAIN store
             /\ StorageEvent(c, r)) =>
                /\ err' = NoError
                /\ store' = store
                /\ pending' = [pending EXCEPT ![c] = Tail(@)]]_vars

\* C10 happens: the message was delivered by a receiving context, which removes
\* the key, and the writer's timer has fired as well: one of the two found the
\* key already gone.
C10_Witness ==
    /\ Len(posts) = 1
    /\ timers = {}
    /\ KeyOf(1) \notin DOMAIN store
    /\ \E i \in 1..Len(log) : log[i].via = "_onmsg"

\* C11: constructing a handle while localStorage is unavailable throws the
\* EnvironmentUnavailable error and leaves the context as it was: no handle in any
\* subscriber array, no channel entry, no context id, no storage listener.
C11_UnavailableChangesNothing ==
    [][\A c \in Contexts, n \in ChannelNames :
        Construct(c, n, FALSE) =>
            /\ err' = EnvironmentUnavailable
            /\ UNCHANGED <<objs, channels, channelsNull, tabId, listeners,
                           store, pending, timers, log>>]_vars

\* C11 happens: a construction has just failed, with one context still as the
\* module leaves it when loaded and another holding the handles made before.
C11_Witness ==
    /\ err = EnvironmentUnavailable
    /\ \E c \in Contexts :
        /\ channelsNull[c]
        /\ tabId[c] = "null"
        /\ listeners[c] = {}
        /\ \E d \in Contexts : d # c /\ ~channelsNull[d]

\* C12: postMessage has no partial outcome: a call either delivers in its context
\* and writes the store, or throws having delivered to no handle and written
\* nothing; a call that throws the conversion error has delivered to no handle.
C12_NoPartialFailure ==
    [][\A h \in Handles, d \in Payloads :
        \A r \in Reentries(objs[h].ctx, objs[h].channelId) :
            PostMessage(h, d, r) =>
                \/ /\ err' = NoError
                   /\ postMessageEntry(h) = "run" =>
                        MessageKey(Len(posts) + 1, objs[h].channelId) \in DOMAIN store'
                \/ /\ err' # NoError
                   /\ log' = log
                   /\ store' = store]_vars

\* C13: when a message handler run during postMessage on handle h calls close()
\* on a handle of the channel, every other handle of the channel in the context
\* that is open at its turn in the delivery (here: open before and after the
\* call, which is open at any turn) still receives the message.
C13_ReentrantDeliveryComplete ==
    [][\A h \in Handles, d \in Payloads :
        \A r \in Reentries(objs[h].ctx, objs[h].channelId) :
            (~objs[h].closed /\ PostMessage(h, d, r)) =>
                \A g \in Handles :
                    (/\ g # h
                     /\ objs[g].ctx = objs[h].ctx
                     /\ objs[g].channelId = objs[h].channelId
                     /\ ~objs[g].closed
                     /\ ~objs'[g].closed) => NewDeliveriesTo(g) >= 1]_vars

\* C14: a context never has more than one storage listener registered, whatever
\* the constructions and closes, also when a handle is constructed after every
\* earlier handle of the context was closed.
C14_AtMostOneListener ==
    \A c \in Contexts : Cardinality(listeners[c]) <= 1

\* C14 happens: the handle whose constructor registered the listener of a context
\* is closed and its channel has no entry left, while two handles constructed
\* after it are open in the context, and that listener is still the only one.
C14_Witness ==
    \E h, g, k \in Handles :
        /\ h < g /\ g < k
        /\ objs[h].ctx = objs[g].ctx /\ objs[g].ctx = objs[k].ctx
        /\ objs[h].closed /\ ~objs[g].closed /\ ~objs[k].closed
        /\ objs[h].channelId \notin DOMAIN channels[objs[h].ctx]
        /\ bind("constructor", h) \in listeners[objs[h].ctx]

\* C15: every store entry written by a successful postMessage is eventually
\* removed, by the writer's timer or earlier by a receiving context, also when
\* the writing handle is closed before the timer fires; so the store holding a
\* message key is always followed by the store holding none.
C15_EntryEventuallyRemoved ==
    /\ \A t \in 1..MaxPosts :
        (t <= Len(posts) /\ KeyOf(t) \in DOMAIN store)
            ~> (t <= Len(posts) /\ KeyOf(t) \notin DOMAIN store)
    /\ \A t \in 1..MaxPosts :
        (t <= Len(posts) /\ KeyOf(t) \in DOMAIN store /\ objs[posts[t].h].closed)
            ~> (t <= Len(posts) /\ KeyOf(t) \notin DOMAIN store)
    /\ (\E k \in DOMAIN store : KeyMatches(k))
            ~> (\A k \in DOMAIN store : ~KeyMatches(k))

\* C15 happens: the message was written, no context other than the writer's has
\* a listener that could have removed the key, the writing handle is closed, the
\* timer has fired and the key is gone.
C15_Witness ==
    /\ Len(posts) = 1
    /\ Serializable(posts[1].data)
    /\ objs[posts[1].h].closed
    /\ \A c \in Contexts : c # objs[posts[1].h].ctx => listeners[c] = {}
    /\ timers = {}
    /\ KeyOf(1) \notin DOMAIN store

\* the oldest storage event queued for c is one the handler of c ignores: its key
\* is no message key, or it reports a removal, or it carries an envelope written
\* by c itself
HeadIgnored(c) ==
    /\ pending[c] # <<>>
    /\ listeners[c] # {}
    /\ \/ ~KeyMatches(Head(pending[c]).key)
       \/ Head(pending[c]).newValue.kind = "removed"
       \/ /\ Head(pending[c]).newValue.kind = "envelope"
          /\ Head(pending[c]).newValue.tabId = tabId[c]

\* C16: the storage handler changes nothing for a change it ignores (a key that
\* is no message key, a removal, an envelope of its own context): no delivery,
\* the store as it was, the registry and the handles as they were.
C16_IgnoredChangesNothing ==
    [][\A c \in Contexts : \A r \in Reentries(c, HeadChannel(c)) :
        (HeadIgnored(c) /\ StorageEvent(c, r)) =>
            /\ log' = log
            /\ store' = store
            /\ channels' = channels
            /\ objs' = objs
            /\ listeners' = listeners]_vars

\* C16 happens: on a host that reports a write to the writer, the context of the
\* writer, whose handle is open, has been dispatched the event of its own write
\* and that of a key another script wrote; the message key is still in the store,
\* its timer has not fired and nothing was delivered.
C16_Witness ==
    /\ hostNotifiesSelf
    /\ Len(posts) = 1
    /\ Serializable(posts[1].data)
    /\ ~objs[posts[1].h].closed
    /\ pending[objs[posts[1].h].ctx] = <<>>
    /\ KeyOf(1) \in DOMAIN store
    /\ timers # {}
    /\ log = <<>>
    /\ \E k \in DOMAIN store : ~KeyMatches(k)

\* every handle constructed so far in context c has been closed
AllClosedIn(c) ==
    /\ \E g \in Handles : objs[g].ctx = c
    /\ \A g \in Handles : objs[g].ctx = c => objs[g].closed

\* C17 as stated: postMessage in a context where every handle constructed so far
\* has been closed returns without an error, delivers nothing and writes nothing.
C17_NoChannelsNoOp ==
    [][\A h \in Handles, d \in Payloads :
        \A r \in Reentries(objs[h].ctx, objs[h].channelId) :
            (AllClosedIn(objs[h].ctx) /\ PostMessage(h, d, r)) =>
                /\ err' = NoError
                /\ log' = log
                /\ store' = store]_vars

\* C17 amended: postMessage in a context where every handle constructed so far
\* has been closed throws the ChannelClosed error (_channels is then an empty
\* object, not null), delivers nothing and writes nothing.
C17_AllClosedPostFails ==
    [][\A h \in Handles, d \in Payloads :
        \A r \in Reentries(objs[h].ctx, objs[h].channelId) :
            (AllClosedIn(objs[h].ctx) /\ PostMessage(h, d, r)) =>
                /\ err' = ChannelClosed
                /\ log' = log
                /\ store' = store
                /\ timers' = timers
                /\ pending' = pending]_vars

\* C17 happens: a call has just thrown the ChannelClosed error in the one context
\* that ever had handles, and the registry of that context is empty.
C17_Witness ==
    /\ err = ChannelClosed
    /\ \E c \in Contexts :
        /\ ~channelsNull[c]
        /\ isEmpty(channels[c])
        /\ \A d \in Contexts : d # c => channelsNull[d]

\* C18: a context with an open handle always has a storage listener registered,
\* so its open handles can be reached from other contexts, also a handle made
\* after every earlier handle of the context was closed.
C18_OpenHandleHasListener ==
    \A h \in Handles : ~objs[h].closed => listeners[objs[h].ctx] # {}

\* C18 happens: the handle whose constructor registered the listener of a context
\* is closed, and a handle constructed after it in that context has received,
\* through the storage handler, a message posted in another context.
C18_Witness ==
    \E h, g \in Handles :
        /\ h < g
        /\ objs[h].ctx = objs[g].ctx
        /\ objs[h].closed /\ ~objs[g].closed
        /\ listeners[objs[g].ctx] = {bind("constructor", h)}
        /\ \E i \in 1..Len(log) : log[i].to = g /\ log[i].via = "_onmsg"

\* C19: close() on a handle that is already closed returns without an error and
\* leaves the registry, the listeners and the store as they were, also when the
\* entry of the handle's channel is gone from the registry.
C19_CloseIdempotent ==
    [][\A h \in Handles :
        (objs[h].closed /\ Close(h)) =>
            /\ err' = NoError
            /\ channels' = channels
            /\ listeners' = listeners
            /\ store' = store]_vars

\* C20: no handle is dispatched the same message twice over the whole execution:
\* not in its context and again through the storage handler, and not again when
\* the key is removed by a receiver or by the timer.
C20_AtMostOnce ==
    \A i, j \in 1..Len(log) :
        (log[i].to = log[j].to /\ log[i].timestamp = log[j].timestamp) => i = j

\* C20 happens: on a host that reports a write to the writer, one handle got the
\* message in the writer's context and one in another context; the key was
\* removed, the timer has fired, and every context has been dispatched all the
\* storage events of the write and of the removal.
C20_Witness ==
    /\ hostNotifiesSelf
    /\ Len(posts) = 1
    /\ timers = {}
    /\ store = <<>>
    /\ \A c \in Contexts : pending[c] = <<>>
    /\ Len(log) = 2
    /\ \E i, j \in 1..Len(log) :
        /\ log[i].via = "postMessage" /\ ~objs[log[i].to].closed
        /\ log[j].via = "_onmsg" /\ ~objs[log[j].to].closed

====
